---- MODULE Spec2Model ----
(***************************************************************************)
(* Model of the gating-coefficient core of sailfish009/xlora.               *)
(*                                                                         *)
(*  - src/src/mole/mole_state.py: the module-level coefficient slot        *)
(*    `_scalings` with its plain and bounded-lifetime holders              *)
(*    (get_scalings / set_scalings / set_scalings_lifetime).               *)
(*  - src/src/xlora/xlora.py, src/src/xlora/xlora_classifier.py: the       *)
(*    forward pre-hook and the classifier's forward, which publish into    *)
(*    the model attribute `internal_xlora_scalings`.                       *)
(*                                                                         *)
(* Specifications:                                                         *)
(*   Spec         the operations of mole_state.py on `_scalings`           *)
(*   SpecForward  serialized outer forward calls on one xLoRA model        *)
(*   SpecAll      either of the two, from the common initial state         *)
(*   SpecDebug    SpecForward with the classifier's debug switches         *)
(*   SpecLogging  SpecForward with the logging switches and the flush      *)
(*   SpecConcurrent  outer forward calls that overlap on one xLoRA model   *)
(*   SpecDiagnostics  one attached model, its print budget and its log     *)
(*   SpecSeq      the stop-token decision position of one row of tokens    *)
(*   SpecConvert  convert_layers_to_xlora over the modules of one model    *)
(*   SpecInstances  Spec, called on behalf of several model instances      *)
(***************************************************************************)
EXTENDS Integers, Sequences, FiniteSets

\* ---------------------------------------------------------------- bounds
\* Largest n_accesses_lifetime a caller of set_scalings_lifetime passes.
MaxLifetime == 2
\* Successful get_scalings calls between two successful writes (caps n_accesses).
MaxReads == 4
\* Outer forward calls made on the model instance.
MaxCalls == 2
\* Wrapped LoRA layers found at attach time (total_swapped).
MaxLayers == 2
\* Adapters handed to add_xlora_to_model (n_classes = len(adapters)).
MaxClasses == 2
\* Rows of an input batch.
MaxBatch == 2
\* Models converted in one process, whose layers all import mole_state.
MaxInstances == 2
\* Modules of the PeftModel that base.modules() yields.
MaxModules == 3
\* Tokens of one row of input_ids (seq_len).
MaxSeqLen == 4
\* Largest token id of the vocabulary.
MaxToken == 2
\* Largest budget handed to print_scalings_predictions.
MaxPrint == 2

\* --------------------------------------------------------------- tensors
\* A tensor is its provenance and its shape; ndim is the length of the shape.
NoTensor == [src |-> "none", call |-> 0, shape |-> <<>>]

ndim(t) == Len(t.shape)

\* Tensors a caller hands to set_scalings / set_scalings_lifetime: two distinct
\* 3-dimensional ones, a 2-dimensional and a 4-dimensional one.
ApiTensors ==
    { [src |-> "A", call |-> 0, shape |-> <<1, 1, 1>>],
      [src |-> "B", call |-> 0, shape |-> <<1, 1, 1>>],
      [src |-> "A", call |-> 0, shape |-> <<1, 1>>],
      [src |-> "B", call |-> 0, shape |-> <<1, 1, 1, 1>>] }

\* ---------------------------------------------------------------- errors
\* mole_state.py:42  assert _scalings is not None
ChannelUnsetError == "AssertionError: _scalings is not None"
\* mole_state.py:53, 64  assert value.ndim == 3
InvalidShapeError == "AssertionError: value.ndim == 3"
\* mole_state.py:65  _scalings.value with _scalings = None
NoPriorValueError == "AttributeError: 'NoneType' object has no attribute 'value'"

Return(t) == [err |-> "none", val |-> t]
Raise(e) == [err |-> e, val |-> NoTensor]

VARIABLES
    _scalings,   \* mole_state.py: the module-level slot
    op,          \* the last operation called on the slot, with its arguments
    prev,        \* the slot as it was before that operation
    ret,         \* what that operation returned or raised
    reads,       \* successful get_scalings calls since the last successful write
    lastWrite,   \* the last successful write: its arguments and the slot before it
    caller,      \* the model instance on whose behalf the last operation was called
    attached,                 \* add_xlora_to_model has returned
    config,                   \* xLoRAConfig fields the classifier's forward reads
    n_layers,                 \* xLoRAClassifier.n_layers
    n_classes,                \* xLoRAClassifier.n_classes
    internal_xlora_scalings,  \* model_peft.internal_xlora_scalings
    pc,          \* per outer call: where its call stack stands
    inp,         \* per outer call: the input batch it was given
    layer,       \* per outer call: wrapped layers already run in the current pass
    xlora_scalings,  \* per outer call: the hook's local, the classifier's result
    outcome,     \* per outer call: "none", "ok" or the exception that ended it
    stats,       \* per outer call: what it has done so far (counts, tensors read)
    n_predictions_lifetime,   \* xLoRAClassifier.n_predictions_lifetime
    scalings_logging,         \* xLoRAClassifier.scalings_logging
    log_scalings,             \* xLoRAClassifier.log_scalings
    was_logging,  \* enable_scalings_logging has been called at least once
    flush_ret,    \* the last flush_log_scalings: what it raised, what it saved
    tally,        \* counts of the classifier's returns, prints and log appends
    input_ids,         \* one row of the input_ids given to the classifier
    stop_token_id,     \* xLoRAConfig.stop_token_id, when it is not None
    sequence_lengths,  \* the sequence_lengths entry computed for that row
    seq_pc,       \* "idle", "given" (row received) or "computed"
    modules,        \* base.modules(): the modules of the PeftModel, in traversal order
    adapters_len,   \* len(adapters) of the add_xlora_to_model call
    conv_pc,        \* convert_layers_to_xlora: "idle", "loop" or "returned"
    position,       \* convert_layers_to_xlora: the next module of the traversal
    swapped,        \* convert_layers_to_xlora: total_swapped
    scaling_keys,   \* convert_layers_to_xlora: scaling_keys
    xlora_layers    \* the xLoRALayer objects constructed, in construction order

chanVars == <<_scalings, op, prev, ret, reads, lastWrite, caller>>

dbgVars == <<n_predictions_lifetime, scalings_logging, log_scalings,
             was_logging, flush_ret, tally>>

convVars == <<modules, adapters_len, conv_pc, position, swapped,
              scaling_keys, xlora_layers>>

seqVars == <<input_ids, stop_token_id, sequence_lengths, seq_pc>>

fwdVars == <<attached, config, n_layers, n_classes, internal_xlora_scalings,
             pc, inp, layer, xlora_scalings, outcome, stats,
             n_predictions_lifetime, scalings_logging, log_scalings,
             was_logging, flush_ret, tally>>

vars == <<_scalings, op, prev, ret, reads, lastWrite, caller,
          attached, config, n_layers, n_classes, internal_xlora_scalings,
          pc, inp, layer, xlora_scalings, outcome, stats,
          n_predictions_lifetime, scalings_logging, log_scalings,
          was_logging, flush_ret, tally,
          input_ids, stop_token_id, sequence_lengths, seq_pc,
          modules, adapters_len, conv_pc, position, swapped, scaling_keys,
          xlora_layers>>

\* ------------------------------------------------------ mole_state.py slot
\* _scalings: Optional[_MoLEScalings] = None
None == [kind |-> "None"]

\* Mutant of MoLEScalings: set_scalings builds the bounded holder (one read,
\* reverting to nothing) instead of the plain one.
MoLEScalings_bounded(inner) ==
    [kind |-> "lifetime", inner |-> inner, old_scalings |-> NoTensor,
     n_accesses_lifetime |-> 1, n_accesses |-> 0]

\* class _MoLEScalings.__init__
MoLEScalings(inner) == [kind |-> "plain", inner |-> inner]

\* class _MoLEScalingsWithLifetime.__init__
MoLEScalingsWithLifetime(inner, old_scalings, n_accesses_lifetime) ==
    [kind |-> "lifetime", inner |-> inner, old_scalings |-> old_scalings,
     n_accesses_lifetime |-> n_accesses_lifetime, n_accesses |-> 0]

\* The tensor the property `value` returns (both classes: self.inner as it is
\* when the property is read).
value_result(s) == s.inner

\* Mutant of value_after: the expiry test is > instead of >=.
value_after_off_by_one(s) ==
    IF s.kind = "plain" THEN s
    ELSE LET n == s.n_accesses + 1
         IN  [s EXCEPT !.n_accesses = n,
                       !.inner = IF n > s.n_accesses_lifetime
                                 THEN s.old_scalings ELSE @]

\* Mutant of value_after: at and after expiry inner and old_scalings are
\* exchanged instead of inner being overwritten.
value_after_swaps(s) ==
    IF s.kind = "plain" THEN s
    ELSE LET n == s.n_accesses + 1
         IN  IF n >= s.n_accesses_lifetime
             THEN [s EXCEPT !.n_accesses = n, !.inner = s.old_scalings,
                            !.old_scalings = s.inner]
             ELSE [s EXCEPT !.n_accesses = n]

\* The object after the property `value` was read: _MoLEScalings is untouched,
\* _MoLEScalingsWithLifetime counts the access and, once the count has reached
\* the lifetime, points inner at old_scalings.
value_after(s) ==
    IF s.kind = "plain" THEN s
    ELSE LET n == s.n_accesses + 1
         IN  [s EXCEPT !.n_accesses = n,
                       !.inner = IF n >= s.n_accesses_lifetime
                                 THEN s.old_scalings ELSE @]

NoOp == [name |-> "none", value |-> NoTensor, n |-> 0]

NoWrite == [name |-> "none", value |-> NoTensor, n |-> 0, prev |-> None]

InitChannel ==
    /\ _scalings = None
    /\ op = NoOp
    /\ prev = None
    /\ ret = Return(NoTensor)
    /\ reads = 0
    /\ lastWrite = NoWrite

\* Mutant of get_scalings: no assertion, an unset slot reads as no tensor.
get_scalings_no_assert ==
    /\ reads < MaxReads
    /\ op' = [name |-> "get", value |-> NoTensor, n |-> 0]
    /\ prev' = _scalings
    /\ IF _scalings = None
       THEN /\ ret' = Return(NoTensor)
            /\ UNCHANGED <<_scalings, reads>>
       ELSE /\ ret' = Return(value_result(_scalings))
            /\ _scalings' = value_after(_scalings)
            /\ reads' = reads + 1
    /\ UNCHANGED lastWrite
    /\ UNCHANGED fwdVars
    /\ UNCHANGED seqVars
    /\ UNCHANGED convVars

\* def get_scalings()
get_scalings ==
    /\ reads < MaxReads
    /\ op' = [name |-> "get", value |-> NoTensor, n |-> 0]
    /\ prev' = _scalings
    /\ IF _scalings = None
       THEN /\ ret' = Raise(ChannelUnsetError)
            /\ UNCHANGED <<_scalings, reads>>
       ELSE /\ ret' = Return(value_result(_scalings))
            /\ _scalings' = value_after(_scalings)
            /\ reads' = reads + 1
    /\ UNCHANGED lastWrite
    /\ UNCHANGED fwdVars
    /\ UNCHANGED seqVars
    /\ UNCHANGED convVars

\* Mutant of set_scalings: the ndim assertion is missing.
set_scalings_no_assert(value) ==
    /\ op' = [name |-> "set", value |-> value, n |-> 0]
    /\ prev' = _scalings
    /\ _scalings' = MoLEScalings(value)
    /\ ret' = Return(NoTensor)
    /\ reads' = 0
    /\ lastWrite' = [name |-> "set", value |-> value, n |-> 0, prev |-> _scalings]
    /\ UNCHANGED fwdVars
    /\ UNCHANGED seqVars
    /\ UNCHANGED convVars

\* Mutant of set_scalings: a holder with a lifetime is kept and only its inner
\* tensor is replaced, so its access count and its fallback stay in force.
set_scalings_keeps_lifetime(value) ==
    /\ op' = [name |-> "set", value |-> value, n |-> 0]
    /\ prev' = _scalings
    /\ IF ndim(value) # 3
       THEN /\ ret' = Raise(InvalidShapeError)
            /\ UNCHANGED <<_scalings, reads, lastWrite>>
       ELSE /\ _scalings' = IF _scalings # None /\ _scalings.kind = "lifetime"
                            THEN [_scalings EXCEPT !.inner = value]
                            ELSE MoLEScalings(value)
            /\ ret' = Return(NoTensor)
            /\ reads' = 0
            /\ lastWrite' = [name |-> "set", value |-> value, n |-> 0,
                             prev |-> _scalings]
    /\ UNCHANGED fwdVars
    /\ UNCHANGED seqVars
    /\ UNCHANGED convVars

\* def set_scalings(value)
set_scalings(value) ==
    /\ op' = [name |-> "set", value |-> value, n |-> 0]
    /\ prev' = _scalings
    /\ IF ndim(value) # 3
       THEN /\ ret' = Raise(InvalidShapeError)
            /\ UNCHANGED <<_scalings, reads, lastWrite>>
       ELSE /\ _scalings' = MoLEScalings(value)
            /\ ret' = Return(NoTensor)
            /\ reads' = 0
            /\ lastWrite' = [name |-> "set", value |-> value, n |-> 0,
                             prev |-> _scalings]
    /\ UNCHANGED fwdVars
    /\ UNCHANGED seqVars
    /\ UNCHANGED convVars

\* Mutant of set_scalings_lifetime: with no previous value the new tensor is
\* taken as its own fallback.
set_scalings_lifetime_no_prior(value, n_accesses_lifetime) ==
    /\ op' = [name |-> "set_lifetime", value |-> value, n |-> n_accesses_lifetime]
    /\ prev' = _scalings
    /\ IF ndim(value) # 3
       THEN /\ ret' = Raise(InvalidShapeError)
            /\ UNCHANGED <<_scalings, reads, lastWrite>>
       ELSE /\ _scalings' = MoLEScalingsWithLifetime(
                                value,
                                IF _scalings = None THEN value
                                ELSE value_result(_scalings),
                                n_accesses_lifetime)
            /\ ret' = Return(NoTensor)
            /\ reads' = 0
            /\ lastWrite' = [name |-> "set_lifetime", value |-> value,
                             n |-> n_accesses_lifetime, prev |-> _scalings]
    /\ UNCHANGED fwdVars
    /\ UNCHANGED seqVars
    /\ UNCHANGED convVars

\* def set_scalings_lifetime(value, n_accesses_lifetime)
set_scalings_lifetime(value, n_accesses_lifetime) ==
    /\ op' = [name |-> "set_lifetime", value |-> value, n |-> n_accesses_lifetime]
    /\ prev' = _scalings
    /\ IF ndim(value) # 3
       THEN /\ ret' = Raise(InvalidShapeError)
            /\ UNCHANGED <<_scalings, reads, lastWrite>>
       ELSE IF _scalings = None
       THEN /\ ret' = Raise(NoPriorValueError)
            /\ UNCHANGED <<_scalings, reads, lastWrite>>
       ELSE /\ _scalings' = MoLEScalingsWithLifetime(
                                value, value_result(_scalings), n_accesses_lifetime)
            /\ ret' = Return(NoTensor)
            /\ reads' = 0
            /\ lastWrite' = [name |-> "set_lifetime", value |-> value,
                             n |-> n_accesses_lifetime, prev |-> _scalings]
    /\ UNCHANGED fwdVars
    /\ UNCHANGED seqVars
    /\ UNCHANGED convVars

\* ------------------------------------------- xlora.py / xlora_classifier.py
Calls == 1..MaxCalls

\* torch.ones(batch_size, n_layers, n_classes) / n_classes
neutral_scalings(batch_size, nl, nc) ==
    [src |-> "uniform", call |-> 0, shape |-> <<batch_size, nl, nc>>]

\* logits.reshape(batch_size, n_layers, n_classes): what the classifier computes
\* from the hidden states of outer call c.
real_scalings(c, batch_size, nl, nc) ==
    [src |-> "real", call |-> c, shape |-> <<batch_size, nl, nc>>]

NoInput == [batch |-> 0, kind |-> "none", attention_mask |-> FALSE]

\* An input batch: token ids or embeddings, with or without an attention mask.
Inputs ==
    [batch : 1..MaxBatch, kind : {"input_ids", "inputs_embeds"},
     attention_mask : BOOLEAN]

\* The configuration fields xLoRAClassifier.forward branches on, and whether the
\* base model's hidden width is the configured hidden_size.
Configs ==
    [enable_softmax : BOOLEAN, stop_token_id : BOOLEAN, use_mean_pool : BOOLEAN,
     hidden_size_matches : BOOLEAN]

NoConfig ==
    [enable_softmax |-> FALSE, stop_token_id |-> FALSE, use_mean_pool |-> FALSE,
     hidden_size_matches |-> FALSE]

NoStats ==
    [classifier |-> 0, inhibited |-> 0, published |-> 0, shadow_reads |-> 0,
     real_reads |-> {}, before_inhibit |-> NoTensor, at_entry |-> NoTensor]

\* xlora_classifier.py:169  assert attention_mask is not None
MissingAttentionMaskError == "AssertionError: attention mask was not given"
\* xlora_classifier.py:189  assert isinstance(sequence_lengths, torch.Tensor)
SequenceLengthsNotTensor == "AssertionError: isinstance(sequence_lengths, torch.Tensor)"
\* xlora_classifier.py:208, 210  nn.Linear on a hidden state of another width
ShapeMismatchError == "RuntimeError: mat1 and mat2 shapes cannot be multiplied"
\* xlora_classifier.py:223  temperature_scaled_softmax is not defined anywhere
UndefinedSoftmaxError == "NameError: name 'temperature_scaled_softmax' is not defined"
\* a wrapped layer slicing internal_xlora_scalings while it is None
ScalingsNoneError == "TypeError: 'NoneType' object is not subscriptable"

\* xlora_classifier.py:261  raise Exception("Scalings logging is disabled!")
LoggingDisabledError == "Exception: Scalings logging is disabled!"
\* xlora_classifier.py:264  raise ValueError("No log scalings to flush.")
EmptyLogError == "ValueError: No log scalings to flush."
\* xlora_classifier.py:266  torch.cat of tensors whose other dimensions differ
CatSizeError == "RuntimeError: Sizes of tensors must match except in dimension 0"
\* xlora_classifier.py:267  Tensor.numpy() of a tensor that requires grad, is
\* not on the CPU or has a dtype numpy lacks
NumpyConversionError == "RuntimeError/TypeError: can't convert the tensor to numpy"

\* Nothing counted yet: budget is the last print budget set; computed and
\* printed count the classifier's returns and prints since it was set; logged
\* counts the returns made with logging on since the last flush that saved.
NoTally == [budget |-> 0, computed |-> 0, printed |-> 0, logged |-> 0]

\* No flush_log_scalings has been called.
NoFlush == [err |-> "never", saved |-> <<>>]

InitForward ==
    /\ attached = FALSE
    /\ config = NoConfig
    /\ n_layers = 0
    /\ n_classes = 0
    /\ internal_xlora_scalings = NoTensor
    /\ pc = [c \in Calls |-> "idle"]
    /\ inp = [c \in Calls |-> NoInput]
    /\ layer = [c \in Calls |-> 0]
    /\ xlora_scalings = [c \in Calls |-> NoTensor]
    /\ outcome = [c \in Calls |-> "none"]
    /\ stats = [c \in Calls |-> NoStats]
    /\ n_predictions_lifetime = 0
    /\ scalings_logging = FALSE
    /\ log_scalings = <<>>
    /\ was_logging = FALSE
    /\ flush_ret = NoFlush
    /\ tally = NoTally

\* def add_xlora_to_model: the classifier is built with n_classes = len(adapters)
\* and n_layers = total_swapped, and the slot is created as None.
add_xlora_to_model(cfg, total_swapped, n_adapters) ==
    /\ ~attached
    /\ attached' = TRUE
    /\ config' = cfg
    /\ n_layers' = total_swapped
    /\ n_classes' = n_adapters
    /\ internal_xlora_scalings' = NoTensor
    /\ UNCHANGED <<pc, inp, layer, xlora_scalings, outcome, stats>>
    /\ UNCHANGED chanVars
    /\ UNCHANGED seqVars
    /\ UNCHANGED convVars
    /\ UNCHANGED dbgVars

\* No other outer call is in flight.
Serialized(c) == \A d \in Calls \ {c} : pc[d] \in {"idle", "done", "failed"}

\* The caller invokes the model: the call reaches the forward pre-hook of the
\* base model without the inhibitor flag.
outer_forward(c, input) ==
    /\ attached
    /\ pc[c] = "idle"
    /\ \A d \in Calls : d < c => pc[d] # "idle"
    /\ Serialized(c)
    /\ pc' = [pc EXCEPT ![c] = "hook"]
    /\ inp' = [inp EXCEPT ![c] = input]
    /\ stats' = [stats EXCEPT ![c].at_entry = internal_xlora_scalings]
    /\ UNCHANGED <<attached, config, n_layers, n_classes, internal_xlora_scalings,
                   layer, xlora_scalings, outcome>>
    /\ UNCHANGED chanVars
    /\ UNCHANGED seqVars
    /\ UNCHANGED convVars
    /\ UNCHANGED dbgVars

\* The same entry made from a second thread while another outer call is still
\* in flight: the hook, the classifier and the slot take no lock and keep no
\* per-call state, so nothing delays it.
outer_forward_overlapping(c, input) ==
    /\ attached
    /\ pc[c] = "idle"
    /\ \A d \in Calls : d < c => pc[d] # "idle"
    /\ pc' = [pc EXCEPT ![c] = "hook"]
    /\ inp' = [inp EXCEPT ![c] = input]
    /\ stats' = [stats EXCEPT ![c].at_entry = internal_xlora_scalings]
    /\ UNCHANGED <<attached, config, n_layers, n_classes, internal_xlora_scalings,
                   layer, xlora_scalings, outcome>>
    /\ UNCHANGED chanVars
    /\ UNCHANGED seqVars
    /\ UNCHANGED convVars
    /\ UNCHANGED dbgVars

\* hook, flag absent (xlora.py 103-106): xlora_classifier.forward is called.
hook_call_classifier(c) ==
    /\ pc[c] = "hook"
    /\ pc' = [pc EXCEPT ![c] = "classifier"]
    /\ stats' = [stats EXCEPT ![c].classifier = @ + 1]
    /\ UNCHANGED <<attached, config, n_layers, n_classes, internal_xlora_scalings,
                   inp, layer, xlora_scalings, outcome>>
    /\ UNCHANGED chanVars
    /\ UNCHANGED seqVars
    /\ UNCHANGED convVars
    /\ UNCHANGED dbgVars

\* Mutant of classifier_forward_begin: the nested model.forward is not called,
\* the classifier goes on without a shadow pass.
classifier_forward_begin_no_shadow(c) ==
    /\ pc[c] = "classifier"
    /\ internal_xlora_scalings' = neutral_scalings(inp[c].batch, n_layers, n_classes)
    /\ pc' = [pc EXCEPT ![c] = "compute"]
    /\ UNCHANGED <<attached, config, n_layers, n_classes,
                   inp, layer, xlora_scalings, outcome, stats>>
    /\ UNCHANGED chanVars
    /\ UNCHANGED seqVars
    /\ UNCHANGED convVars
    /\ UNCHANGED dbgVars

\* xLoRAClassifier.forward up to the nested model.forward (118-148): the neutral
\* tensor is assigned to the slot, then the model is called with
\* _xlora_classifier_inhibitor_flag = batch_size.
classifier_forward_begin(c) ==
    /\ pc[c] = "classifier"
    /\ internal_xlora_scalings' = neutral_scalings(inp[c].batch, n_layers, n_classes)
    /\ pc' = [pc EXCEPT ![c] = "nested_hook"]
    /\ UNCHANGED <<attached, config, n_layers, n_classes,
                   inp, layer, xlora_scalings, outcome, stats>>
    /\ UNCHANGED chanVars
    /\ UNCHANGED seqVars
    /\ UNCHANGED convVars
    /\ UNCHANGED dbgVars

\* Mutant of hook_inhibited: the division by n_classes is missing.
hook_inhibited_ones(c) ==
    /\ pc[c] = "nested_hook"
    /\ internal_xlora_scalings' =
           [src |-> "ones", call |-> 0, shape |-> <<inp[c].batch, n_layers, n_classes>>]
    /\ pc' = [pc EXCEPT ![c] = "shadow"]
    /\ layer' = [layer EXCEPT ![c] = 0]
    /\ stats' = [stats EXCEPT ![c].inhibited = @ + 1,
                              ![c].before_inhibit = internal_xlora_scalings]
    /\ UNCHANGED <<attached, config, n_layers, n_classes,
                   inp, xlora_scalings, outcome>>
    /\ UNCHANGED chanVars
    /\ UNCHANGED seqVars
    /\ UNCHANGED convVars
    /\ UNCHANGED dbgVars

\* hook, flag present (xlora.py 91-101): the neutral tensor is assigned to the
\* slot and the hook returns; the base model's forward then runs (shadow pass).
hook_inhibited(c) ==
    /\ pc[c] = "nested_hook"
    /\ internal_xlora_scalings' = neutral_scalings(inp[c].batch, n_layers, n_classes)
    /\ pc' = [pc EXCEPT ![c] = "shadow"]
    /\ layer' = [layer EXCEPT ![c] = 0]
    /\ stats' = [stats EXCEPT ![c].inhibited = @ + 1,
                              ![c].before_inhibit = internal_xlora_scalings]
    /\ UNCHANGED <<attached, config, n_layers, n_classes,
                   inp, xlora_scalings, outcome>>
    /\ UNCHANGED chanVars
    /\ UNCHANGED seqVars
    /\ UNCHANGED convVars
    /\ UNCHANGED dbgVars

\* A wrapped layer's forward: it reads the slot and takes its own slice
\* [:, layer_number, :].
xlora_layer_forward(c) ==
    /\ pc[c] \in {"shadow", "real"}
    /\ layer[c] < n_layers
    /\ IF internal_xlora_scalings = NoTensor
       THEN /\ pc' = [pc EXCEPT ![c] = "failed"]
            /\ outcome' = [outcome EXCEPT ![c] = ScalingsNoneError]
            /\ UNCHANGED <<layer, stats>>
       ELSE /\ layer' = [layer EXCEPT ![c] = @ + 1]
            /\ stats' = IF pc[c] = "shadow"
                        THEN [stats EXCEPT ![c].shadow_reads = @ + 1]
                        ELSE [stats EXCEPT ![c].real_reads =
                                               @ \cup {internal_xlora_scalings}]
            /\ UNCHANGED <<pc, outcome>>
    /\ UNCHANGED <<attached, config, n_layers, n_classes, internal_xlora_scalings,
                   inp, xlora_scalings>>
    /\ UNCHANGED chanVars
    /\ UNCHANGED seqVars
    /\ UNCHANGED convVars
    /\ UNCHANGED dbgVars

\* The base model's forward returns once every wrapped layer has run: the
\* shadow pass returns into the classifier, the real pass to the caller.
base_forward_return(c) ==
    /\ pc[c] \in {"shadow", "real"}
    /\ layer[c] = n_layers
    /\ IF pc[c] = "shadow"
       THEN /\ pc' = [pc EXCEPT ![c] = "compute"]
            /\ UNCHANGED outcome
       ELSE /\ pc' = [pc EXCEPT ![c] = "done"]
            /\ outcome' = [outcome EXCEPT ![c] = "ok"]
    /\ UNCHANGED <<attached, config, n_layers, n_classes, internal_xlora_scalings,
                   inp, layer, xlora_scalings, stats>>
    /\ UNCHANGED chanVars
    /\ UNCHANGED seqVars
    /\ UNCHANGED convVars
    /\ UNCHANGED dbgVars

\* Tensor.unsqueeze(0), as applied to the scalings that are logged (230).
unsqueeze(t) == [t EXCEPT !.shape = <<1>> \o @]

\* Mutant of classifier_error: the attention mask is asserted for embeddings
\* as well as for token ids.
classifier_error_mask_always(cfg, input) ==
    IF ~cfg.stop_token_id /\ ~input.attention_mask
    THEN MissingAttentionMaskError
    ELSE IF cfg.use_mean_pool /\ input.kind = "inputs_embeds"
    THEN SequenceLengthsNotTensor
    ELSE IF ~cfg.hidden_size_matches
    THEN ShapeMismatchError
    ELSE IF cfg.enable_softmax
    THEN UndefinedSoftmaxError
    ELSE "none"

\* xLoRAClassifier.forward after the nested call (159-232): the exception it
\* raises for this configuration and input, "none" when it returns.
classifier_error(cfg, input) ==
    IF ~cfg.stop_token_id /\ input.kind = "input_ids" /\ ~input.attention_mask
    THEN MissingAttentionMaskError
    ELSE IF cfg.use_mean_pool /\ input.kind = "inputs_embeds"
    THEN SequenceLengthsNotTensor
    ELSE IF ~cfg.hidden_size_matches
    THEN ShapeMismatchError
    ELSE IF cfg.enable_softmax
    THEN UndefinedSoftmaxError
    ELSE "none"

\* Mutant of classifier_forward_compute: the print counter is decremented
\* without the test that it is positive.
classifier_forward_compute_unguarded(c) ==
    /\ pc[c] = "compute"
    /\ LET e == classifier_error(config, inp[c])
       IN  IF e # "none"
           THEN /\ pc' = [pc EXCEPT ![c] = "failed"]
                /\ outcome' = [outcome EXCEPT ![c] = e]
                /\ UNCHANGED xlora_scalings
                /\ UNCHANGED dbgVars
           ELSE LET scalings == real_scalings(c, inp[c].batch, n_layers, n_classes)
                IN  /\ n_predictions_lifetime' =
                           n_predictions_lifetime - 1
                    /\ log_scalings' =
                           IF scalings_logging
                           THEN Append(log_scalings, unsqueeze(scalings))
                           ELSE log_scalings
                    /\ tally' = [tally EXCEPT
                           !.computed = @ + 1,
                           !.printed = IF n_predictions_lifetime > 0 THEN @ + 1 ELSE @,
                           !.logged = IF scalings_logging THEN @ + 1 ELSE @]
                    /\ UNCHANGED <<scalings_logging, was_logging, flush_ret>>
                    /\ pc' = [pc EXCEPT ![c] = "publish"]
                    /\ xlora_scalings' = [xlora_scalings EXCEPT ![c] = scalings]
                    /\ UNCHANGED outcome
    /\ UNCHANGED <<attached, config, n_layers, n_classes, internal_xlora_scalings,
                   inp, layer, stats>>
    /\ UNCHANGED chanVars
    /\ UNCHANGED seqVars
    /\ UNCHANGED convVars

\* xLoRAClassifier.forward from the hidden states to the return (159-232): it
\* raises, or reshapes the logits into the scalings, prints them while the
\* print budget is positive, logs them while logging is on, and returns them.
classifier_forward_compute(c) ==
    /\ pc[c] = "compute"
    /\ LET e == classifier_error(config, inp[c])
       IN  IF e # "none"
           THEN /\ pc' = [pc EXCEPT ![c] = "failed"]
                /\ outcome' = [outcome EXCEPT ![c] = e]
                /\ UNCHANGED xlora_scalings
                /\ UNCHANGED dbgVars
           ELSE LET scalings == real_scalings(c, inp[c].batch, n_layers, n_classes)
                IN  /\ n_predictions_lifetime' =
                           IF n_predictions_lifetime > 0
                           THEN n_predictions_lifetime - 1
                           ELSE n_predictions_lifetime
                    /\ log_scalings' =
                           IF scalings_logging
                           THEN Append(log_scalings, unsqueeze(scalings))
                           ELSE log_scalings
                    /\ tally' = [tally EXCEPT
                           !.computed = @ + 1,
                           !.printed = IF n_predictions_lifetime > 0 THEN @ + 1 ELSE @,
                           !.logged = IF scalings_logging THEN @ + 1 ELSE @]
                    /\ UNCHANGED <<scalings_logging, was_logging, flush_ret>>
                    /\ pc' = [pc EXCEPT ![c] = "publish"]
                    /\ xlora_scalings' = [xlora_scalings EXCEPT ![c] = scalings]
                    /\ UNCHANGED outcome
    /\ UNCHANGED <<attached, config, n_layers, n_classes, internal_xlora_scalings,
                   inp, layer, stats>>
    /\ UNCHANGED chanVars
    /\ UNCHANGED seqVars
    /\ UNCHANGED convVars

\* Mutant of hook_publish: the assignment of the classifier's result is missing.
hook_publish_skipped(c) ==
    /\ pc[c] = "publish"
    /\ pc' = [pc EXCEPT ![c] = "real"]
    /\ layer' = [layer EXCEPT ![c] = 0]
    /\ stats' = [stats EXCEPT ![c].published = @ + 1]
    /\ UNCHANGED <<attached, config, n_layers, n_classes, internal_xlora_scalings,
                   inp, xlora_scalings, outcome>>
    /\ UNCHANGED chanVars
    /\ UNCHANGED seqVars
    /\ UNCHANGED convVars
    /\ UNCHANGED dbgVars

\* hook, flag absent (xlora.py 107): the classifier's result is assigned to the
\* slot and the hook returns; the base model's forward then runs (real pass).
hook_publish(c) ==
    /\ pc[c] = "publish"
    /\ internal_xlora_scalings' = xlora_scalings[c]
    /\ pc' = [pc EXCEPT ![c] = "real"]
    /\ layer' = [layer EXCEPT ![c] = 0]
    /\ stats' = [stats EXCEPT ![c].published = @ + 1]
    /\ UNCHANGED <<attached, config, n_layers, n_classes,
                   inp, xlora_scalings, outcome>>
    /\ UNCHANGED chanVars
    /\ UNCHANGED seqVars
    /\ UNCHANGED convVars
    /\ UNCHANGED dbgVars

\* The caller is between two outer calls.
NoCallInFlight == \A c \in Calls : pc[c] \in {"idle", "done", "failed"}

\* print_scalings_predictions(n): the next n predictions are printed.
print_scalings_predictions(n) ==
    /\ attached
    /\ NoCallInFlight
    /\ n_predictions_lifetime' = n
    /\ tally' = [tally EXCEPT !.budget = n, !.computed = 0, !.printed = 0]
    /\ UNCHANGED <<scalings_logging, log_scalings, was_logging, flush_ret>>
    /\ UNCHANGED <<attached, config, n_layers, n_classes, internal_xlora_scalings,
                   pc, inp, layer, xlora_scalings, outcome, stats>>
    /\ UNCHANGED chanVars
    /\ UNCHANGED seqVars
    /\ UNCHANGED convVars

\* enable_scalings_logging()
enable_scalings_logging ==
    /\ attached
    /\ NoCallInFlight
    /\ scalings_logging' = TRUE
    /\ was_logging' = TRUE
    /\ UNCHANGED <<n_predictions_lifetime, log_scalings, flush_ret, tally>>
    /\ UNCHANGED <<attached, config, n_layers, n_classes, internal_xlora_scalings,
                   pc, inp, layer, xlora_scalings, outcome, stats>>
    /\ UNCHANGED chanVars
    /\ UNCHANGED seqVars
    /\ UNCHANGED convVars

\* disable_scalings_logging()
disable_scalings_logging ==
    /\ attached
    /\ NoCallInFlight
    /\ scalings_logging' = FALSE
    /\ UNCHANGED <<n_predictions_lifetime, log_scalings, was_logging, flush_ret,
                   tally>>
    /\ UNCHANGED <<attached, config, n_layers, n_classes, internal_xlora_scalings,
                   pc, inp, layer, xlora_scalings, outcome, stats>>
    /\ UNCHANGED chanVars
    /\ UNCHANGED seqVars
    /\ UNCHANGED convVars

\* torch.cat(tensors, dim=0) accepts tensors that agree in every dimension
\* but the first.
cat_accepts(tensors) ==
    \A i, j \in 1..Len(tensors) : Tail(tensors[i].shape) = Tail(tensors[j].shape)

\* flush_log_scalings(path); numpy_ok says whether Tensor.numpy() accepts the
\* concatenated tensor (no grad required, on the CPU, a dtype numpy has).
flush_log_scalings(numpy_ok) ==
    /\ attached
    /\ NoCallInFlight
    /\ IF ~scalings_logging
       THEN /\ flush_ret' = [err |-> LoggingDisabledError, saved |-> <<>>]
            /\ UNCHANGED log_scalings
       ELSE IF Len(log_scalings) = 0
       THEN /\ flush_ret' = [err |-> EmptyLogError, saved |-> <<>>]
            /\ UNCHANGED log_scalings
       ELSE IF ~cat_accepts(log_scalings)
       THEN /\ flush_ret' = [err |-> CatSizeError, saved |-> <<>>]
            /\ UNCHANGED log_scalings
       ELSE IF ~numpy_ok
       THEN /\ flush_ret' = [err |-> NumpyConversionError, saved |-> <<>>]
            /\ UNCHANGED log_scalings
       ELSE /\ flush_ret' = [err |-> "none", saved |-> log_scalings]
            /\ log_scalings' = <<>>
    /\ tally' = IF flush_ret'.err = "none" THEN [tally EXCEPT !.logged = 0] ELSE tally
    /\ UNCHANGED <<n_predictions_lifetime, scalings_logging, was_logging>>
    /\ UNCHANGED <<attached, config, n_layers, n_classes, internal_xlora_scalings,
                   pc, inp, layer, xlora_scalings, outcome, stats>>
    /\ UNCHANGED chanVars
    /\ UNCHANGED seqVars
    /\ UNCHANGED convVars

\* ------------------------------------- the sequence lengths (decision position)
Tokens == 0..MaxToken

\* The rows of token ids the classifier is given: seq_len >= 1.
Rows == UNION {[1..n -> Tokens] : n \in 1..MaxSeqLen}

\* torch.eq(input_ids, stop_token_id).int() on one row
eq_int(row, token) == [i \in 1..Len(row) |-> IF row[i] = token THEN 1 ELSE 0]

\* Tensor.argmax(-1) on one row: the 0-based index of the first maximal entry.
argmax(row) ==
    CHOOSE i \in 0..(Len(row) - 1) :
        /\ \A j \in 0..(Len(row) - 1) : row[j + 1] <= row[i + 1]
        /\ \A j \in 0..(i - 1) : row[j + 1] < row[i + 1]

\* Mutant of stop_token_sequence_lengths: the "- 1" is missing.
stop_token_sequence_lengths_no_minus(row, token) ==
    argmax(eq_int(row, token)) % Len(row)

\* xlora_classifier.py 181-182:
\*   sequence_lengths = torch.eq(input_ids, stop_token_id).int().argmax(-1) - 1
\*   sequence_lengths = sequence_lengths % input_ids.shape[-1]
stop_token_sequence_lengths(row, token) ==
    (argmax(eq_int(row, token)) - 1) % Len(row)

InitSeq ==
    /\ input_ids = <<>>
    /\ stop_token_id = 0
    /\ sequence_lengths = 0
    /\ seq_pc = "idle"

\* xLoRAClassifier.forward is given a row of token ids, on a classifier whose
\* configuration has a stop token.
forward_input_ids(row, token) ==
    /\ seq_pc = "idle"
    /\ input_ids' = row
    /\ stop_token_id' = token
    /\ seq_pc' = "given"
    /\ UNCHANGED sequence_lengths
    /\ UNCHANGED chanVars
    /\ UNCHANGED fwdVars
    /\ UNCHANGED convVars

\* xLoRAClassifier.forward, the branch "Calculate via stop token id" (178-183)
forward_sequence_lengths ==
    /\ seq_pc = "given"
    /\ sequence_lengths' = stop_token_sequence_lengths(input_ids, stop_token_id)
    /\ seq_pc' = "computed"
    /\ UNCHANGED <<input_ids, stop_token_id>>
    /\ UNCHANGED chanVars
    /\ UNCHANGED fwdVars
    /\ UNCHANGED convVars

\* ------------------------------------------------- convert_layers_to_xlora
\* The keys of a dict whose keys are the adapters in S, in insertion order:
\* adapters are loaded in the order 1, 2, ... (xlora.py 75-80).
keys(S) ==
    CHOOSE f \in [1..Cardinality(S) -> S] :
        \A i, j \in 1..Cardinality(S) : i < j => f[i] < f[j]

\* A module that is no lora.LoraLayer.
OtherModule == [lora |-> FALSE, scaling |-> <<>>]

\* The modules of a PeftModel with n adapters loaded: a lora.LoraLayer exists
\* only where an adapter was loaded, so its scaling dict has at least one key.
ModuleKinds(n) ==
    {OtherModule} \cup
    {[lora |-> TRUE, scaling |-> keys(S)] : S \in (SUBSET (1..n)) \ {{}}}

ModuleLists(n) == UNION {[1..k -> ModuleKinds(n)] : k \in 0..MaxModules}

\* scaling_keys = None
NoKeys == <<>>

InitConvert ==
    /\ modules = <<>>
    /\ adapters_len = 0
    /\ conv_pc = "idle"
    /\ position = 1
    /\ swapped = 0
    /\ scaling_keys = NoKeys
    /\ xlora_layers = <<>>

\* add_xlora_to_model loads the adapters (75-80) and calls
\* convert_layers_to_xlora, which starts with total_swapped = 0 and
\* scaling_keys = None (27-29).
convert_layers_to_xlora_begin(n, mods) ==
    /\ ~attached
    /\ conv_pc = "idle"
    /\ modules' = mods
    /\ adapters_len' = n
    /\ conv_pc' = "loop"
    /\ position' = 1
    /\ swapped' = 0
    /\ scaling_keys' = NoKeys
    /\ xlora_layers' = <<>>
    /\ UNCHANGED chanVars
    /\ UNCHANGED fwdVars
    /\ UNCHANGED seqVars

\* Mutant of convert_layers_to_xlora_loop: total_swapped counts every module
\* of the traversal, not only the lora.LoraLayer ones.
convert_layers_to_xlora_loop_counts_all ==
    /\ conv_pc = "loop"
    /\ position <= Len(modules)
    /\ LET module == modules[position]
       IN  IF module.lora
           THEN LET ks == IF scaling_keys = NoKeys THEN module.scaling
                          ELSE scaling_keys
                IN  /\ scaling_keys' = ks
                    /\ xlora_layers' = Append(xlora_layers,
                           [target |-> position, scaling_keys |-> ks,
                            layer_number |-> swapped])
           ELSE UNCHANGED <<scaling_keys, xlora_layers>>
    /\ swapped' = swapped + 1
    /\ position' = position + 1
    /\ UNCHANGED <<modules, adapters_len, conv_pc>>
    /\ UNCHANGED chanVars
    /\ UNCHANGED fwdVars
    /\ UNCHANGED seqVars

\* One iteration of `for module in base.modules()` (30-42).
convert_layers_to_xlora_loop ==
    /\ conv_pc = "loop"
    /\ position <= Len(modules)
    /\ LET module == modules[position]
       IN  IF module.lora
           THEN LET ks == IF scaling_keys = NoKeys THEN module.scaling
                          ELSE scaling_keys
                IN  /\ scaling_keys' = ks
                    /\ xlora_layers' = Append(xlora_layers,
                           [target |-> position, scaling_keys |-> ks,
                            layer_number |-> swapped])
                    /\ swapped' = swapped + 1
           ELSE UNCHANGED <<scaling_keys, xlora_layers, swapped>>
    /\ position' = position + 1
    /\ UNCHANGED <<modules, adapters_len, conv_pc>>
    /\ UNCHANGED chanVars
    /\ UNCHANGED fwdVars
    /\ UNCHANGED seqVars

\* The traversal is over: return total_swapped (49).
convert_layers_to_xlora_return ==
    /\ conv_pc = "loop"
    /\ position > Len(modules)
    /\ conv_pc' = "returned"
    /\ UNCHANGED <<modules, adapters_len, position, swapped, scaling_keys,
                   xlora_layers>>
    /\ UNCHANGED chanVars
    /\ UNCHANGED fwdVars
    /\ UNCHANGED seqVars

\* add_xlora_to_model after the conversion (125-163): the classifier is built
\* with n_classes = len(adapters) and n_layers = total_swapped.
add_xlora_to_model_converted(cfg) ==
    /\ conv_pc = "returned"
    /\ add_xlora_to_model(cfg, swapped, adapters_len)

\* --------------------------------------------------------- specifications
\* Before any operation, no model instance has called mole_state.
NoInstance == 0

Instances == 1..MaxInstances

Init == InitChannel /\ InitForward /\ InitSeq /\ InitConvert /\ caller = NoInstance

Next ==
    \/ get_scalings /\ UNCHANGED caller
    \/ \E value \in ApiTensors : set_scalings(value) /\ UNCHANGED caller
    \/ \E value \in ApiTensors, n \in 0..MaxLifetime :
           set_scalings_lifetime(value, n) /\ UNCHANGED caller

Spec == Init /\ [][Next]_vars

\* The same calls, made by the layers and the wrappers of several models that
\* live in one process and import the one module mole_state: no function of
\* mole_state.py takes the model as an argument.
NextInstances ==
    \/ \E m \in Instances : get_scalings /\ caller' = m
    \/ \E m \in Instances, value \in ApiTensors :
           set_scalings(value) /\ caller' = m
    \/ \E m \in Instances, value \in ApiTensors, n \in 0..MaxLifetime :
           set_scalings_lifetime(value, n) /\ caller' = m

SpecInstances == Init /\ [][NextInstances]_vars

NextForward ==
    \/ \E cfg \in Configs, nl \in 0..MaxLayers, nc \in 1..MaxClasses :
           add_xlora_to_model(cfg, nl, nc)
    \/ \E c \in Calls, input \in Inputs : outer_forward(c, input)
    \/ \E c \in Calls : hook_call_classifier(c)
    \/ \E c \in Calls : classifier_forward_begin(c)
    \/ \E c \in Calls : hook_inhibited(c)
    \/ \E c \in Calls : xlora_layer_forward(c)
    \/ \E c \in Calls : base_forward_return(c)
    \/ \E c \in Calls : classifier_forward_compute(c)
    \/ \E c \in Calls : hook_publish(c)

SpecForward == Init /\ [][NextForward]_vars

\* The forward calls together with the debug switches of the classifier.
NextDebug ==
    \/ \E n \in 0..MaxPrint : print_scalings_predictions(n)
    \/ enable_scalings_logging
    \/ disable_scalings_logging

SpecDebug == Init /\ [][NextForward \/ NextDebug]_vars

\* The forward calls together with the logging switches and the flush of the
\* logged scalings.
NextLogging ==
    \/ enable_scalings_logging
    \/ disable_scalings_logging
    \/ \E numpy_ok \in BOOLEAN : flush_log_scalings(numpy_ok)

SpecLogging == Init /\ [][NextForward \/ NextLogging]_vars

\* The forward calls together with every diagnostic operation: the print
\* budget, the logging switches and the flush. The prints and the log appends
\* depend on no dimension of the scalings, so the model is attached with the
\* largest number of layers and adapters and called with the largest batch.
NextDiagnostics ==
    \/ \E cfg \in Configs : add_xlora_to_model(cfg, MaxLayers, MaxClasses)
    \/ \E c \in Calls, input \in {i \in Inputs : i.batch = MaxBatch} :
           outer_forward(c, input)
    \/ \E c \in Calls : hook_call_classifier(c)
    \/ \E c \in Calls : classifier_forward_begin(c)
    \/ \E c \in Calls : hook_inhibited(c)
    \/ \E c \in Calls : xlora_layer_forward(c)
    \/ \E c \in Calls : base_forward_return(c)
    \/ \E c \in Calls : classifier_forward_compute(c)
    \/ \E c \in Calls : hook_publish(c)
    \/ \E n \in 0..MaxPrint : print_scalings_predictions(n)
    \/ enable_scalings_logging
    \/ disable_scalings_logging
    \/ \E numpy_ok \in BOOLEAN : flush_log_scalings(numpy_ok)

SpecDiagnostics == Init /\ [][NextDiagnostics]_vars

\* The sequence lengths the classifier derives from rows of token ids when a
\* stop token is configured.
NextSeq ==
    \/ \E row \in Rows, token \in Tokens : forward_input_ids(row, token)
    \/ forward_sequence_lengths

SpecSeq == Init /\ [][NextSeq]_vars

\* Attaching: the traversal that wraps the LoRA layers, then the construction
\* of the classifier.
NextConvert ==
    \/ \E n \in 1..MaxClasses : \E mods \in ModuleLists(n) :
           convert_layers_to_xlora_begin(n, mods)
    \/ convert_layers_to_xlora_loop
    \/ convert_layers_to_xlora_return
    \/ \E cfg \in Configs : add_xlora_to_model_converted(cfg)

SpecConvert == Init /\ [][NextConvert]_vars

\* Outer calls that may overlap on the one model instance: every step of a call
\* (hook, classifier, wrapped layer) may be interleaved with the other call's.
NextConcurrent ==
    \/ \E cfg \in Configs, nl \in 0..MaxLayers, nc \in 1..MaxClasses :
           add_xlora_to_model(cfg, nl, nc)
    \/ \E c \in Calls, input \in Inputs : outer_forward_overlapping(c, input)
    \/ \E c \in Calls : hook_call_classifier(c)
    \/ \E c \in Calls : classifier_forward_begin(c)
    \/ \E c \in Calls : hook_inhibited(c)
    \/ \E c \in Calls : xlora_layer_forward(c)
    \/ \E c \in Calls : base_forward_return(c)
    \/ \E c \in Calls : classifier_forward_compute(c)
    \/ \E c \in Calls : hook_publish(c)

SpecConcurrent == Init /\ [][NextConcurrent]_vars

\* The two parts share no variable, so a predicate over the variables of one
\* part holds of any interleaving of the two exactly when it holds of that part
\* run alone: SpecAll runs either the mole_state.py operations or an attached
\* model, from the common initial state.
NextAll ==
    \/ ~attached /\ Next
    \/ op = NoOp /\ NextForward

SpecAll == Init /\ [][NextAll]_vars

\* ------------------------------------------------- the slot's contract view
\* The reads a slot value still bounds: a _MoLEScalingsWithLifetime that has not
\* expired bounds the reads left to it; any other value (a plain holder, a bare
\* tensor, an expired holder) bounds nothing.
Unbounded == [bounded |-> FALSE, n |-> 0]

accesses_remaining(s) ==
    IF "n_accesses_lifetime" \in DOMAIN s /\ s.n_accesses < s.n_accesses_lifetime
    THEN [bounded |-> TRUE, n |-> s.n_accesses_lifetime - s.n_accesses]
    ELSE Unbounded

\* The tensor a read of a slot value yields: inner for a holder, the value
\* itself for a bare tensor.
current(s) == IF "inner" \in DOMAIN s THEN s.inner ELSE s

\* The tensor a slot value reverts to when its bound runs out.
fallback(s) ==
    IF accesses_remaining(s).bounded THEN s.old_scalings ELSE NoTensor

\* ------------------------------------------------ claims: mole_state.py slot
\* The override and the fallback of the last set_scalings_lifetime.
OverrideTensor == lastWrite.value

FallbackTensor == lastWrite.prev.inner

\* C1: after set_scalings(T) with a 3-dimensional T, every get_scalings that
\* follows with no write in between returns exactly T, and the reads change
\* nothing: the slot stays the plain holder of T that the set made, which has
\* no access counter.
C1_SetThenGet ==
    lastWrite.name = "set" =>
        /\ _scalings = [kind |-> "plain", inner |-> lastWrite.value]
        /\ op.name = "get" => /\ ret = Return(lastWrite.value)
                              /\ _scalings = prev

\* Witness of C1: a third read after a set has returned.
C1_Witness ==
    /\ lastWrite.name = "set"
    /\ op.name = "get"
    /\ reads = 3
    /\ ret = Return(lastWrite.value)

\* C2: after set_scalings(old) followed by set_scalings_lifetime(new, n) with
\* n >= 1, each of the next n get_scalings returns new and the (n+1)-th returns
\* old.
C2_Lifetime ==
    ( /\ lastWrite.name = "set_lifetime"
      /\ lastWrite.prev.kind = "plain"
      /\ lastWrite.n >= 1
      /\ op.name = "get" ) =>
        /\ reads \in 1..lastWrite.n => ret = Return(OverrideTensor)
        /\ reads = lastWrite.n + 1 => ret = Return(FallbackTensor)

\* Witness of C2: the 3rd read after set(old); set_lifetime(new, 2), old # new,
\* has returned old.
C2_Witness ==
    /\ lastWrite.name = "set_lifetime"
    /\ lastWrite.prev.kind = "plain"
    /\ lastWrite.n = 2
    /\ OverrideTensor # FallbackTensor
    /\ op.name = "get"
    /\ reads = 3
    /\ ret = Return(FallbackTensor)

\* C7: get_scalings on a slot that was never set fails with the unset error,
\* returns no tensor and leaves the slot unset (as it is on a fresh module), so
\* that a set_scalings(T) made on it afterwards yields the plain holder of T.
C7_GetUnset ==
    /\ (op.name = "get" /\ prev = None) =>
           /\ ret = Raise(ChannelUnsetError)
           /\ ret.val = NoTensor
           /\ _scalings = None
    /\ (op.name = "set" /\ prev = None /\ ndim(op.value) = 3) =>
           /\ _scalings = [kind |-> "plain", inner |-> op.value]
           /\ ret.err = "none"

\* Witness of C7: a read of the unset slot has just failed.
C7_Witness ==
    /\ op.name = "get"
    /\ prev = None
    /\ ret.err = ChannelUnsetError
    /\ _scalings = None

\* C8: set_scalings_lifetime on a slot with no previous value fails and leaves
\* the slot unset: no override, no fallback and no access bound is installed;
\* for a 3-dimensional tensor the failure is the no-prior-value error; and a
\* get_scalings on the slot it leaves still fails as unset.
C8_LifetimeUnset ==
    /\ (op.name = "set_lifetime" /\ prev = None) =>
           /\ ret.err # "none"
           /\ ndim(op.value) = 3 => ret = Raise(NoPriorValueError)
           /\ _scalings = None
           /\ accesses_remaining(_scalings) = Unbounded
           /\ fallback(_scalings) = NoTensor
           /\ lastWrite = NoWrite
    /\ (op.name = "get" /\ prev = None) => ret = Raise(ChannelUnsetError)

\* Witness of C8: set_scalings_lifetime of a 3-dimensional tensor has just
\* failed on the unset slot.
C8_Witness ==
    /\ op.name = "set_lifetime"
    /\ prev = None
    /\ ndim(op.value) = 3
    /\ op.n >= 1
    /\ ret.err = NoPriorValueError

\* C10: once the n-th read of a bounded override (n >= 1) has happened, every
\* later get_scalings, until the next write, returns the fallback, the slot
\* points at the fallback and carries no bound any more.
C10_ExpiredStaysExpired ==
    ( /\ lastWrite.name = "set_lifetime"
      /\ lastWrite.n >= 1
      /\ reads >= lastWrite.n ) =>
        /\ _scalings.inner = FallbackTensor
        /\ accesses_remaining(_scalings) = Unbounded
        /\ (op.name = "get" /\ reads > lastWrite.n) => ret = Return(FallbackTensor)

\* Witness of C10: two reads after the expiry of a one-read override, old # new.
C10_Witness ==
    /\ lastWrite.name = "set_lifetime"
    /\ lastWrite.n = 1
    /\ OverrideTensor # FallbackTensor
    /\ op.name = "get"
    /\ reads = 3
    /\ ret = Return(FallbackTensor)

\* C18: after set_scalings(old) and set_scalings_lifetime(new, n), exactly n
\* reads return new, for n = 0 as well: the reads up to the n-th return new
\* and every later one returns old, so that with n = 0 the first read
\* already returns old and no read returns new.
C18_ExactLifetime ==
    ( /\ lastWrite.name = "set_lifetime"
      /\ lastWrite.prev.kind = "plain"
      /\ op.name = "get" ) =>
        /\ reads <= lastWrite.n => ret = Return(OverrideTensor)
        /\ reads > lastWrite.n => ret = Return(FallbackTensor)

\* C20: a set_scalings(T) made while a bounded override is still active
\* cancels the override: the slot is the plain holder of T, with no bound and
\* no fallback, and every read that follows with no write in between returns
\* T, however many reads are made.
C20_SetCancelsOverride ==
    ( /\ lastWrite.name = "set"
      /\ accesses_remaining(lastWrite.prev).bounded ) =>
        /\ _scalings = MoLEScalings(lastWrite.value)
        /\ accesses_remaining(_scalings) = Unbounded
        /\ fallback(_scalings) = NoTensor
        /\ op.name = "get" => ret = Return(lastWrite.value)

\* Witness of C20: a set_scalings(T) was made on an override with one read
\* left whose fallback is not T, and the fourth read after it has returned T.
C20_Witness ==
    /\ lastWrite.name = "set"
    /\ accesses_remaining(lastWrite.prev) = [bounded |-> TRUE, n |-> 1]
    /\ lastWrite.value # fallback(lastWrite.prev)
    /\ op.name = "get"
    /\ reads = MaxReads
    /\ ret = Return(lastWrite.value)

\* ------------------------------------------------- claims: the forward call
\* The tensors one outer call is meant to put into the slot.
NeutralOf(c) ==
    [src |-> "uniform", call |-> 0, shape |-> <<inp[c].batch, n_layers, n_classes>>]

RealOf(c) ==
    [src |-> "real", call |-> c, shape |-> <<inp[c].batch, n_layers, n_classes>>]

\* An input the classifier documents no failure for: token ids with an
\* attention mask, on a base model of the configured hidden width.
WellFormedCall(c) ==
    /\ inp[c].kind = "input_ids"
    /\ inp[c].attention_mask
    /\ config.hidden_size_matches

\* C3: one outer forward call on a well-formed input ends having invoked the
\* classifier exactly once, run the inhibited hook (one shadow pass) exactly
\* once and published real coefficients exactly once.
C3_ExactlyOnce ==
    \A c \in Calls :
        (pc[c] \in {"done", "failed"} /\ WellFormedCall(c)) =>
            /\ pc[c] = "done"
            /\ stats[c].classifier = 1
            /\ stats[c].inhibited = 1
            /\ stats[c].published = 1

\* C4: in serialized outer calls, every slot read a wrapped layer makes during
\* a call's real pass returns the real coefficients the classifier computed
\* for that same call, never the neutral tensor and never another call's.
C4_RealPassReadsOwn ==
    \A c \in Calls : stats[c].real_reads \subseteq {RealOf(c)}

\* Witness of C4: the second call's real pass has read the slot after a first
\* call completed its own real pass.
C4_Witness ==
    /\ pc[1] = "done"
    /\ stats[1].real_reads # {}
    /\ pc[2] = "real"
    /\ layer[2] = n_layers
    /\ stats[2].real_reads = {RealOf(2)}

C11_ZeroLayers ==
    (attached /\ n_layers = 0) =>
        \A c \in Calls :
            /\ (pc[c] \in {"done", "failed"} /\ WellFormedCall(c)) =>
                   /\ pc[c] = "done"
                   /\ outcome[c] = "ok"
            /\ xlora_scalings[c] # NoTensor => xlora_scalings[c].shape[2] = 0
            /\ stats[c].shadow_reads = 0
            /\ stats[c].real_reads = {}

\* The reads of call c's real pass that did not return its own coefficients.
ForeignReads(c) == stats[c].real_reads \ {RealOf(c)}

\* The tensors the calls other than c that have started put into the slot.
WrittenByOthers(c) ==
    UNION {{NeutralOf(d), RealOf(d)} : d \in {e \in Calls \ {c} : pc[e] # "idle"}}

\* C12: when outer calls overlap on one model instance, a wrapped layer in one
\* call's real pass can read coefficients written by another call instead of
\* its own; whatever such a read returns is the neutral tensor or the real
\* coefficients of another call that has started, and nothing else.
C12_OverlapReadsForeign ==
    \A c \in Calls : ForeignReads(c) \subseteq WrittenByOthers(c)

\* Witness of C12: the first call's real pass has read both the neutral tensor
\* and the real coefficients of the second call, which started while the first
\* was in flight.
C12_Witness ==
    /\ pc[1] \in {"real", "done"}
    /\ inp[1].batch # inp[2].batch
    /\ ForeignReads(1) = {NeutralOf(2), RealOf(2)}
    /\ RealOf(1) \notin stats[1].real_reads

\* C13: once an outer call has failed before publishing its real coefficients
\* (and no later call has started), the slot holds what it held when the
\* failed call began, not the neutral tensor of the failed call.
C13_UnwindRestores ==
    \A c \in Calls :
        ( /\ pc[c] = "failed"
          /\ stats[c].published = 0
          /\ \A d \in Calls : d > c => pc[d] = "idle" ) =>
            /\ internal_xlora_scalings = stats[c].at_entry
            /\ internal_xlora_scalings # NeutralOf(c)

\* What a read of the slot made now returns.
ReadNow ==
    IF internal_xlora_scalings = NoTensor
    THEN Raise(ScalingsNoneError)
    ELSE Return(current(internal_xlora_scalings))

\* The shadow pass of call c has consumed its n_layers reads and the call has
\* not published its real coefficients yet.
ShadowDrained(c) ==
    /\ pc[c] \in {"compute", "publish"}
    /\ stats[c].shadow_reads = n_layers

C19_FirstCallCompletes ==
    (pc[1] # "idle" /\ stats[1].at_entry = NoTensor) =>
        /\ outcome[1] \notin {NoPriorValueError, ChannelUnsetError, ScalingsNoneError}
        /\ pc[1] \in {"shadow", "compute", "publish", "real", "done", "failed"} =>
               stats[1].inhibited = 1
        /\ (pc[1] \in {"done", "failed"} /\ WellFormedCall(1)) =>
               /\ pc[1] = "done"
               /\ stats[1].published = 1
               /\ pc[2] = "idle" => internal_xlora_scalings = RealOf(1)

\* ------------------------------------------- claims: the classifier's forward
\* The classifier's forward of call c has ended, by raising or by returning.
Computed(c) == pc[c] \in {"failed", "publish", "real", "done"}

\* Call c was made with no attention mask on a model with no stop token.
NoMaskNoStopToken(c) == ~config.stop_token_id /\ ~inp[c].attention_mask

C16_ComputeReturns ==
    \A c \in Calls :
        /\ (Computed(c) /\ inp[c].attention_mask /\ config.hidden_size_matches) =>
               /\ pc[c] # "failed"
               /\ xlora_scalings[c].shape = <<inp[c].batch, n_layers, n_classes>>
        /\ pc[c] = "failed" =>
               outcome[c] \in {MissingAttentionMaskError, ShapeMismatchError}

\* ------------------------------------------------ claims: the logged scalings
\* A step that is a call of flush_log_scalings.
FlushStep == \E numpy_ok \in BOOLEAN : flush_log_scalings(numpy_ok)

\* C14: flush_log_scalings fails as disabled only if logging was never
\* enabled, fails as empty if the buffer is empty, and leaves the buffer
\* unchanged when it fails; otherwise (logging was enabled at some time and
\* the buffer is not empty, whether or not logging is still on) it saves all
\* buffered tensors in their emission order and leaves the buffer empty.
C14_FlushLog ==
    [][FlushStep =>
          /\ flush_ret'.err = LoggingDisabledError => ~was_logging
          /\ (was_logging /\ log_scalings = <<>>) => flush_ret'.err = EmptyLogError
          /\ flush_ret'.err # "none" => log_scalings' = log_scalings
          /\ (was_logging /\ log_scalings # <<>>) =>
                 /\ flush_ret'.err = "none"
                 /\ flush_ret'.saved = log_scalings
                 /\ log_scalings' = <<>>]_vars

\* ---------------------------------------- claims: print budget and log buffer
Min(a, b) == IF a <= b THEN a ELSE b

\* C21: after the print budget is set to N >= 0, exactly the next N returns of
\* the classifier's forward print their scalings, the counter goes down by one
\* per print and never below zero; and each return appends exactly one entry
\* to the log buffer while logging is on and none while it is off, so that the
\* buffer length is the number of returns made with logging on since the last
\* flush that saved.
C21_PrintBudgetAndLog ==
    /\ n_predictions_lifetime >= 0
    /\ tally.printed = Min(tally.budget, tally.computed)
    /\ n_predictions_lifetime = tally.budget - tally.printed
    /\ Len(log_scalings) = tally.logged

\* Witness of C21: with a budget of one, two forwards have returned, the first
\* printed and the second did not; one of the two was logged.
C21_Witness ==
    /\ tally.budget = 1
    /\ tally.computed = 2
    /\ tally.printed = 1
    /\ n_predictions_lifetime = 0
    /\ Len(log_scalings) = 1

\* --------------------------------------------- claims: the decision position
\* The stop token occurs in the row given.
Occurs == \E i \in 1..Len(input_ids) : input_ids[i] = stop_token_id

\* The 0-based index of its first occurrence.
FirstOccurrence ==
    CHOOSE i \in 0..(Len(input_ids) - 1) :
        /\ input_ids[i + 1] = stop_token_id
        /\ \A j \in 0..(i - 1) : input_ids[j + 1] # stop_token_id

\* C22 (as stated): with a stop token configured and a row of seq_len >= 1
\* token ids, the decision position is the index of the first occurrence of
\* the stop token when it occurs, and it always lies in [0, seq_len).
C22_FirstOccurrence ==
    seq_pc = "computed" =>
        /\ Occurs => sequence_lengths = FirstOccurrence
        /\ sequence_lengths \in 0..(Len(input_ids) - 1)

\* C22 (as amended): the decision position is the index just before the first
\* occurrence of the stop token, and the last index seq_len - 1 when the stop
\* token is at index 0 or does not occur; it always lies in [0, seq_len).
C22_BeforeFirstOccurrence ==
    seq_pc = "computed" =>
        /\ (Occurs /\ FirstOccurrence >= 1) => sequence_lengths = FirstOccurrence - 1
        /\ (Occurs /\ FirstOccurrence = 0) => sequence_lengths = Len(input_ids) - 1
        /\ ~Occurs => sequence_lengths = Len(input_ids) - 1
        /\ sequence_lengths \in 0..(Len(input_ids) - 1)

\* Witness of C22: in a row of four tokens whose first stop token is at index
\* 2 and which has a second one at index 3, the decision position is 1.
C22_Witness ==
    /\ seq_pc = "computed"
    /\ Len(input_ids) = 4
    /\ Occurs
    /\ FirstOccurrence = 2
    /\ input_ids[4] = stop_token_id
    /\ sequence_lengths = 1

\* ------------------------------------------------------- claims: attaching
\* The positions of the lora.LoraLayer modules among the first k modules.
LoraPositions(k) == {i \in 1..k : i <= Len(modules) /\ modules[i].lora}

\* The shapes of the tensors the hook and the classifier publish once attached.
PublishedShapes ==
    UNION {{neutral_scalings(b, n_layers, n_classes).shape,
            real_scalings(c, b, n_layers, n_classes).shape} :
               b \in 1..MaxBatch, c \in Calls}

\* C23: the wrapped layers get the layer numbers 0, 1, ..., n-1 in the order
\* the traversal discovers them, with no gap and no duplicate; every wrapped
\* layer gets the same list of scaling keys; and once attached the
\* classifier's n_layers is the number n of wrapped layers, so that every
\* layer number is an index of the layer axis of every published tensor.
C23_LayerNumbers ==
    /\ swapped = Len(xlora_layers)
    /\ \A k \in 1..Len(xlora_layers) : xlora_layers[k].layer_number = k - 1
    /\ \A k, l \in 1..Len(xlora_layers) :
           /\ k < l => xlora_layers[k].target < xlora_layers[l].target
           /\ xlora_layers[k].scaling_keys = xlora_layers[l].scaling_keys
    /\ {xlora_layers[k].target : k \in 1..Len(xlora_layers)} =
           LoraPositions(position - 1)
    /\ attached =>
           /\ n_layers = Cardinality(LoraPositions(Len(modules)))
           /\ n_layers = Len(xlora_layers)
           /\ n_classes = adapters_len
           /\ \A k \in 1..Len(xlora_layers) : \A shape \in PublishedShapes :
                  /\ xlora_layers[k].layer_number < n_layers
                  /\ xlora_layers[k].layer_number \in 0..(shape[2] - 1)

\* Witness of C23: a model attached with two wrapped layers that lie on either
\* side of a module that is no LoRA layer and whose own scaling dicts differ.
C23_Witness ==
    /\ attached
    /\ Len(modules) = 3
    /\ LoraPositions(3) = {1, 3}
    /\ modules[1].scaling # modules[3].scaling
    /\ Len(xlora_layers) = 2
    /\ xlora_layers[2].layer_number = 1
    /\ n_layers = 2

\* ------------------------------------------- claims: several model instances
\* What a get_scalings() called now on behalf of model instance m returns:
\* mole_state.py keeps one slot for the process, whoever the caller is.
GetFor(m) ==
    IF _scalings = None THEN Raise(ChannelUnsetError)
    ELSE Return(value_result(_scalings))

\* C24: an operation called on behalf of one model instance (a set_scalings,
\* a set_scalings_lifetime, or a get_scalings that uses up a read of a
\* lifetime) never changes what a get_scalings() on behalf of another model
\* instance returns.
C24_InstancesIndependent ==
    [][\A m \in Instances : caller' # m => GetFor(m)' = GetFor(m)]_vars

====
